---- MODULE Spec2Model ----
(***************************************************************************)
(* Loyalty-points network: replicas that agree on point balances with a    *)
(* two-phase commit, and the coffee maker's connection to its replica.     *)
(*                                                                         *)
(* What src/ holds is modelled from it: Transaction (new, older_than,      *)
(* prepare, finalize, the TransactionState discriminants), Message's tag   *)
(* bytes and PointStorage (write, read with its timeout, send).  The       *)
(* replica server itself (ledger, participant, the coordinator's loop) is  *)
(* not in src/; it is modelled from spec.md sections 3, 4.A, 4.B and 4.C.  *)
(*                                                                         *)
(* Timeouts are modelled without a clock: a read with a timeout may give   *)
(* up at any moment at which the byte it waits for has not been written.   *)
(* (A timeout that fires while the byte is on its way leads to the same    *)
(* state as one that fires before the byte is written: the writer never    *)
(* looks at the reader.)                                                   *)
(***************************************************************************)
EXTENDS Integers, Sequences, FiniteSets, TLC

\* ---------------------------------------------------------------- bounds
MaxTx == 2          \* client messages (hence transactions) in one run
MaxTs == 2          \* wall-clock readings are 1..MaxTs
InitAvail == 60     \* every replica's opening balance of a client
MaxAddrLen == 2     \* address strings compared by older_than: length <= 2
NumWorkers == 2     \* the pool's num_threads
NumThreads == 2     \* threads that call execute and join on the pool
MaxJobs == 3        \* closures passed to execute in one run, several threads
MaxSoloJobs == 4    \* closures passed to execute in one run, one thread
MaxJoinJobs == 2    \* closures executed while two threads join
MaxJoins == 1       \* calls of join by one thread in one run

Replicas == {1, 2}
Clients == {7}
PointChoices == {50}
Chars == {65, 66}   \* "A", "B"

\* The address string of a replica, as its sequence of character codes.
Addr(r) == IF r = 1 THEN <<65>> ELSE <<66>>

\* ------------------------------------------------- transaction.rs (code)

StateByte_zero_one(s) ==
    CASE s = "Abort" -> 0
      [] s = "Proceed" -> 1
      [] s = "Disconnected" -> 2
      [] s = "Timeout" -> 3

\* TransactionState's discriminants: `state as u8`.
StateByte(s) ==
    CASE s = "Disconnected" -> 0
      [] s = "Abort" -> 1
      [] s = "Proceed" -> 2
      [] s = "Timeout" -> 3

\* Rust's String comparison: lexicographic on the bytes, a proper prefix first.
RECURSIVE StrLess(_, _)
StrLess(a, b) ==
    IF b = <<>> THEN FALSE
    ELSE IF a = <<>> THEN TRUE
    ELSE IF Head(a) # Head(b) THEN Head(a) < Head(b)
    ELSE StrLess(Tail(a), Tail(b))

older_than_swapped(self, other) ==
    IF self.timestamp = other.timestamp
    THEN StrLess(other.coordinator, self.coordinator)
    ELSE self.timestamp < other.timestamp

older_than(self, other) ==
    IF self.timestamp = other.timestamp
    THEN StrLess(self.coordinator, other.coordinator)
    ELSE self.timestamp < other.timestamp

TransactionActionOf_lockfill(kind, act) ==
    CASE kind = "LockOrder" -> "Lock"
      [] kind = "FreeOrder" /\ act = "UsePoints" -> "Free"
      [] kind = "CommitOrder" /\ act = "FillPoints" -> "Add"
      [] kind = "CommitOrder" /\ act = "UsePoints" -> "Consume"
      [] OTHER -> "Err"

\* The match of Transaction::new: the action of a (message, order action) pair.
TransactionActionOf(kind, act) ==
    CASE kind = "LockOrder" /\ act = "UsePoints" -> "Lock"
      [] kind = "FreeOrder" /\ act = "UsePoints" -> "Free"
      [] kind = "CommitOrder" /\ act = "FillPoints" -> "Add"
      [] kind = "CommitOrder" /\ act = "UsePoints" -> "Consume"
      [] OTHER -> "Err"

\* Transaction::new with the clock reading `now`.
TransactionNew(coordinator, msg, now) ==
    IF TransactionActionOf(msg.kind, msg.act) = "Err"
    THEN [ok |-> FALSE]
    ELSE [ok |-> TRUE,
          tx |-> [coordinator |-> coordinator,
                  timestamp |-> now,
                  client_id |-> msg.client,
                  action |-> TransactionActionOf(msg.kind, msg.act),
                  points |-> msg.points]]

\* What Transaction::prepare returns for a peer whose connection opened:
\* readOk is whether read_exact delivered the vote byte before PREPARE_TIMEOUT.
PrepareState_anybyte(readOk, byte) ==
    IF ~readOk THEN "Timeout"
    ELSE IF byte # 0 THEN "Proceed" ELSE "Abort"

PrepareState(readOk, byte) ==
    IF ~readOk THEN "Timeout"
    ELSE IF byte = StateByte("Proceed") THEN "Proceed" ELSE "Abort"

\* The byte Transaction::finalize writes; for Timeout and Disconnected it hits
\* todo!() and writes nothing (-2).
FinalizeByte(state) ==
    IF state \in {"Timeout", "Disconnected"} THEN -2 ELSE StateByte(state)

\* ------------------------------------------------------ message.rs (code)

ORDER_BUFFER_SIZE == 6

MESSAGE_BUFFER_SIZE == ORDER_BUFFER_SIZE + 1

\* Order's 6-byte form (spec.md 3: a fixed layout of tag, client_id big-endian and
\* points big-endian; in 6 bytes that is 1 + 2 + 3).
OrderBytes(o) ==
    <<IF o.act = "FillPoints" THEN 0 ELSE 1,
      (o.client \div 256) % 256, o.client % 256,
      (o.points \div 65536) % 256, (o.points \div 256) % 256, o.points % 256>>

OrderFrom(b) ==
    [act |-> IF b[1] = 0 THEN "FillPoints" ELSE "UsePoints",
     client |-> b[2] * 256 + b[3],
     points |-> b[4] * 65536 + b[5] * 256 + b[6]]

\* From<Message> for [u8; 7]: the tag byte, then the order's bytes.
MessageBytes(m) ==
    <<CASE m.kind = "LockOrder" -> 1
        [] m.kind = "FreeOrder" -> 2
        [] m.kind = "CommitOrder" -> 3>>
    \o SubSeq(OrderBytes(m.order), 1, ORDER_BUFFER_SIZE)

MessageFrom_swapped(buf) ==
    LET order == OrderFrom(SubSeq(buf, 2, MESSAGE_BUFFER_SIZE))
    IN CASE buf[1] = 1 -> [kind |-> "LockOrder", order |-> order]
         [] buf[1] = 2 -> [kind |-> "CommitOrder", order |-> order]
         [] buf[1] = 3 -> [kind |-> "FreeOrder", order |-> order]
         [] OTHER -> [kind |-> "panic", order |-> order]

\* A conversion that takes any other tag for a LockOrder.
MessageFrom_lenient(buf) ==
    LET order == OrderFrom(SubSeq(buf, 2, MESSAGE_BUFFER_SIZE))
    IN CASE buf[1] = 2 -> [kind |-> "FreeOrder", order |-> order]
         [] buf[1] = 3 -> [kind |-> "CommitOrder", order |-> order]
         [] OTHER -> [kind |-> "LockOrder", order |-> order]

\* From<[u8; 7]> for Message: the order of bytes 1..6, the kind by the tag; any
\* other tag panics.
MessageFrom(buf) ==
    LET order == OrderFrom(SubSeq(buf, 2, MESSAGE_BUFFER_SIZE))
    IN CASE buf[1] = 1 -> [kind |-> "LockOrder", order |-> order]
         [] buf[1] = 2 -> [kind |-> "FreeOrder", order |-> order]
         [] buf[1] = 3 -> [kind |-> "CommitOrder", order |-> order]
         [] OTHER -> [kind |-> "panic", order |-> order]

\* ----------------------------------------------- point_storage.rs (code)

\* PointStorage::send once read() returned the byte `res`.
SendResult(res) == IF res = 0 THEN "err" ELSE "ok"

\* ------------------------------------------ Balance Ledger (spec.md 3, 4.A)

NewEntry == [available |-> InitAvail, locked |-> 0]

CanLock(e, n) == e.available >= n

TryLock_nolocked(e, n) == [available |-> e.available - n, locked |-> e.locked]

TryLock(e, n) == [available |-> e.available - n, locked |-> e.locked + n]

Underflows(e, n) == e.locked < n

Unlock_locked_only(e, n) == [available |-> e.available, locked |-> e.locked - n]

Unlock(e, n) == [available |-> e.available + n, locked |-> e.locked - n]

ConsumePoints(e, n) == [e EXCEPT !.locked = @ - n]

AddPoints(e, n) == [e EXCEPT !.available = @ + n]

\* ------------------------------------------------------------------ state

VARIABLES
    ledger,     \* ledger[r][c]: replica r's entry {available, locked} of client c
    pending,    \* pending[r]: replica r's PendingLock table
    msgs,       \* the 7-byte messages the coffee makers have written, in order
    co,         \* co[m]: the coordinator run of message m
    p,          \* p[m][r]: peer r in transaction m (connection and participant)
    repQ,       \* repQ[r]: reply bytes written to r's coffee maker, not yet read
    cwait,      \* cwait[r]: the message whose reply r's coffee maker is reading (0: none)
    result,     \* result[m]: what PointStorage::send returned for message m
    got,        \* got[m]: the message whose reply byte send read for message m
    ot,         \* the transactions older_than is applied to, and what it returned
    nt,         \* the arguments Transaction::new is applied to, and what it returned
    mt,         \* the Message that is encoded and decoded, and what came out
    bt,         \* the byte and state prepare and finalize are applied to, and the results
    cn,         \* one replica's client connections, the frames on them, and its ledger entry
    jobs,           \* the channel: the jobs sent and not yet received, in order
    queued_count,   \* ThreadPoolSharedData's counters
    active_count,
    panic_count,
    join_generation,
    empty_trigger,  \* who holds the mutex empty_trigger (0: nobody)
    wk,             \* wk[w]: the thread in worker slot w
    th,             \* th[t]: the thread t that uses the pool
    job,            \* job[j]: what has become of the closure j
    max_thread_count,   \* ThreadPoolSharedData's max_thread_count
    shrunk_over,    \* the closures that were running at the last set_num_threads
    dropped,        \* whether every ThreadPool handle (and its Sender) is dropped
    left_queued     \* the closures that were queued when the handles were dropped

\* The replicas and the coffee makers' connections.
tpcVars == <<ledger, pending, msgs, co, p, repQ, cwait, result, got>>

\* The arguments and results of the functions that are checked on their own.
fnVars == <<ot, nt, mt, bt, cn>>

\* The thread pool.
\* The pool's size and its handles.
handleVars == <<max_thread_count, shrunk_over, dropped, left_queued>>

poolVars == <<jobs, queued_count, active_count, panic_count, join_generation,
              empty_trigger, wk, th, job, handleVars>>

vars == <<tpcVars, fnVars, poolVars>>

TxIds == 1..MaxTx

\* ------------------------------------------------- threadpool/mod.rs (code)

Workers == 1..NumWorkers

Threads == 1..NumThreads

\* The threads that submit closures; the others only join.
NumSubmitters == 1

Submitters == 1..NumSubmitters

JobIds == 1..MaxSoloJobs

NoJob == [st |-> "none", panics |-> FALSE, runs |-> 0]

IdleThread == [pc |-> "idle", job |-> 0, generation |-> 0, before |-> {},
               joins |-> 0, wave |-> FALSE]

\* Builder::build: the counters at 0, max_thread_count = num_threads, and
\* num_threads worker threads spawned, each at the top of its loop.
PoolBuilt ==
    /\ jobs = <<>>
    /\ queued_count = 0
    /\ active_count = 0
    /\ panic_count = 0
    /\ join_generation = 0
    /\ empty_trigger = 0
    /\ wk = [w \in Workers |-> [pc |-> "top", job |-> 0, panicking |-> FALSE]]
    /\ th = [t \in Threads |-> IdleThread]
    /\ job = [j \in JobIds |-> NoJob]
    /\ max_thread_count = NumWorkers
    /\ shrunk_over = {}
    /\ dropped = FALSE
    /\ left_queued = {}

\* ThreadPoolSharedData::has_work
has_work == queued_count > 0 \/ active_count > 0

NoPeer == [prep |-> "none", pst |-> "Idle", vote |-> "none", vbyte |-> -1,
           cv |-> "none", verdict |-> -1]

NoCoord == [st |-> "none", ts |-> 0, decision |-> "none", reply |-> -1]

NoOt == [a |-> <<>>, b |-> <<>>, c |-> <<>>, done |-> FALSE, ab |-> FALSE,
         ba |-> FALSE, aa |-> FALSE, bc |-> FALSE, ac |-> FALSE]

NoNt == [coordinator |-> <<>>, msg |-> <<>>, now |-> 0, done |-> FALSE, res |-> <<>>]

NoMt == [m |-> <<>>, done |-> FALSE, buf |-> <<>>, back |-> <<>>]

\* The replica's client connections before any frame: all open, nothing read.
NumConns == 2
MaxFrames == 2

Conns == 1..NumConns

NoCn == [st |-> [c \in Conns |-> "open"],
         buf |-> [c \in Conns |-> <<>>],
         frames |-> [c \in Conns |-> 0],
         replies |-> [c \in Conns |-> <<>>],
         entry |-> NewEntry]

NoBt == [byte |-> 0, readOk |-> FALSE, state |-> "none", done |-> FALSE,
         prepared |-> "none", written |-> -1]

\* The (message kind, order action) pairs a well-formed coffee maker writes.
ValidPairs ==
    {q \in {"LockOrder", "FreeOrder", "CommitOrder"} \X {"UsePoints", "FillPoints"} :
        TransactionActionOf(q[1], q[2]) # "Err"}

\* The transaction the coordinator of message m built.
Tx(m) == TransactionNew(Addr(msgs[m].rep), msgs[m], co[m].ts).tx

\* The key of a PendingLock: (client_id, coordinator, timestamp), with its amount.
LockRecord(t) == [client_id |-> t.client_id, coordinator |-> t.coordinator,
                  timestamp |-> t.timestamp, amount |-> t.points]

Matching(r, t) ==
    {l \in pending[r] : /\ l.client_id = t.client_id
                        /\ l.coordinator = t.coordinator
                        /\ l.timestamp = t.timestamp}

OlderPending(r, t) ==
    {l \in pending[r] : l.client_id = t.client_id /\ older_than(l, t)}

\* A participant that votes Proceed on everything.
Vote_always(r, t) == "Proceed"

\* The participant's vote (spec.md 4.B.2, the table; 7, the error kinds).
Vote(r, t) ==
    CASE t.action = "Lock" ->
            IF ~CanLock(ledger[r][t.client_id], t.points) THEN "InsufficientFunds"
            ELSE IF OlderPending(r, t) # {} THEN "OrderingConflict"
            ELSE "Proceed"
      [] t.action = "Free" ->
            IF Matching(r, t) # {} THEN "Proceed" ELSE "MissingPendingLock"
      [] t.action = "Add" -> "Proceed"
      [] t.action = "Consume" ->
            IF \E l \in Matching(r, t) : l.amount >= t.points
            THEN "Proceed" ELSE "MissingPendingLock"

\* The side effect of a Proceed vote: a Lock reserves and records its PendingLock.
ReserveLedger(r, t) ==
    IF t.action = "Lock"
    THEN [ledger EXCEPT ![r][t.client_id] = TryLock(@, t.points)]
    ELSE ledger

ReservePending(r, t) ==
    IF t.action = "Lock"
    THEN [pending EXCEPT ![r] = @ \cup {LockRecord(t)}]
    ELSE pending

\* A Proceed verdict: the side effect is applied, the PendingLock drained.
CommitLedger(r, t) ==
    CASE t.action = "Lock" -> ledger
      [] t.action = "Free" -> [ledger EXCEPT ![r][t.client_id] = Unlock(@, t.points)]
      [] t.action = "Add" -> [ledger EXCEPT ![r][t.client_id] = AddPoints(@, t.points)]
      [] t.action = "Consume" ->
            [ledger EXCEPT ![r][t.client_id] = ConsumePoints(@, t.points)]

\* A participant that keeps the reservation when it aborts.
UndoLedger_keep(r, t) == ledger

\* Abort, Timeout or Disconnected: the reservation is undone.
UndoLedger(r, t) ==
    IF t.action = "Lock"
    THEN [ledger EXCEPT ![r][t.client_id] = Unlock(@, t.points)]
    ELSE ledger

DropPending(r, t) == [pending EXCEPT ![r] = @ \ Matching(r, t)]

\* The coordinator's decision rule over the states prepare gave for the peers.
Decision(states) ==
    IF \A r \in Replicas : states[r] = "Proceed" THEN "commit" ELSE "abort"

\* A coordinator that hands finalize the Timeout it got from prepare.
Verdict_timeout(decision) == IF decision = "commit" THEN "Proceed" ELSE "Timeout"

\* The state the coordinator hands finalize for every peer (spec.md 4.B.1 step 5).
Verdict(decision) == IF decision = "commit" THEN "Proceed" ELSE "Abort"

\* The byte the coordinator replies to the coffee maker.
ReplyByte(decision) == IF decision = "commit" THEN 1 ELSE 0

\* ---------------------------------------------------------------- actions

Init2PC ==
    /\ ledger = [r \in Replicas |-> [c \in Clients |-> NewEntry]]
    /\ pending = [r \in Replicas |-> {}]
    /\ msgs = <<>>
    /\ co = [m \in TxIds |-> NoCoord]
    /\ p = [m \in TxIds |-> [r \in Replicas |-> NoPeer]]
    /\ repQ = [r \in Replicas |-> <<>>]
    /\ cwait = [r \in Replicas |-> 0]
    /\ result = [m \in TxIds |-> "none"]
    /\ got = [m \in TxIds |-> 0]

Init == Init2PC /\ ot = NoOt /\ nt = NoNt /\ mt = NoMt /\ bt = NoBt /\ cn = NoCn /\ PoolBuilt

\* PointStorage::send, from its write to the start of its read: the coffee maker
\* of replica r writes a message and reads the reply byte.  A byte that is already
\* waiting on the connection (the answer to a message whose read timed out) is
\* what read() returns, at once.
ClientSend(r, kind, act, c, n) ==
    /\ cwait[r] = 0
    /\ Len(msgs) < MaxTx
    /\ msgs' = Append(msgs, [rep |-> r, kind |-> kind, act |-> act,
                             client |-> c, points |-> n])
    /\ co' = [co EXCEPT ![Len(msgs) + 1].st = "queued"]
    /\ IF repQ[r] = <<>>
       THEN /\ cwait' = [cwait EXCEPT ![r] = Len(msgs) + 1]
            /\ UNCHANGED <<repQ, result, got>>
       ELSE /\ result' = [result EXCEPT ![Len(msgs) + 1] = SendResult(Head(repQ[r]).byte)]
            /\ got' = [got EXCEPT ![Len(msgs) + 1] = Head(repQ[r]).of]
            /\ repQ' = [repQ EXCEPT ![r] = Tail(@)]
            /\ UNCHANGED cwait
    /\ UNCHANGED <<ledger, pending, p, fnVars, poolVars>>

\* PointStorage::send, its read failing on READ_TIMEOUT: send returns the error
\* and the connection stays in use for the next message.
ClientTimeout(r) ==
    /\ cwait[r] # 0
    /\ result' = [result EXCEPT ![cwait[r]] = "err"]
    /\ cwait' = [cwait EXCEPT ![r] = 0]
    /\ UNCHANGED <<ledger, pending, msgs, co, p, repQ, got, fnVars, poolVars>>

\* The timestamps replica r's coordinator has given out so far.
UsedTs(r) == {co[k].ts : k \in {j \in 1..Len(msgs) : msgs[j].rep = r}}

\* Coordinator steps 1 and 2: the replica takes the next message of its client
\* connection (the one before it has been answered), builds the transaction and
\* opens a connection to every peer; `down` are the other replicas whose connect
\* fails (its own listener is up).
CoordStart(m, now, down) ==
    /\ m \in 1..Len(msgs)
    /\ msgs[m].rep \notin down
    /\ co[m].st = "queued"
    /\ \A k \in 1..(m - 1) : msgs[k].rep = msgs[m].rep => co[k].st = "done"
    /\ \A u \in UsedTs(msgs[m].rep) : u < now
    /\ TransactionNew(Addr(msgs[m].rep), msgs[m], now).ok
    /\ co' = [co EXCEPT ![m].st = "collect", ![m].ts = now]
    /\ p' = [p EXCEPT ![m] = [r \in Replicas |->
                IF r \in down THEN [NoPeer EXCEPT !.cv = "Disconnected"]
                ELSE [NoPeer EXCEPT !.prep = "flight"]]]
    /\ UNCHANGED <<ledger, pending, msgs, repQ, cwait, result, got, fnVars, poolVars>>

\* Participant steps 1 to 3: replica r reads the TRANSACTION frame of m, votes and
\* writes the vote byte; a Proceed vote reserves and leaves it Prepared.
PartPrepare(m, r) ==
    /\ p[m][r].prep = "flight"
    /\ LET t == Tx(m)
           v == Vote(r, t)
       IN IF v = "Proceed"
          THEN /\ ledger' = ReserveLedger(r, t)
               /\ pending' = ReservePending(r, t)
               /\ p' = [p EXCEPT ![m][r].prep = "done", ![m][r].pst = "Prepared",
                                 ![m][r].vote = v,
                                 ![m][r].vbyte = StateByte("Proceed")]
          ELSE /\ p' = [p EXCEPT ![m][r].prep = "done", ![m][r].pst = "Aborted",
                                 ![m][r].vote = v,
                                 ![m][r].vbyte = StateByte("Abort")]
               /\ UNCHANGED <<ledger, pending>>
    /\ UNCHANGED <<msgs, co, repQ, cwait, result, got, fnVars, poolVars>>

\* Coordinator steps 3 to 5 and 7.  Transaction::prepare reads each peer's vote
\* byte: `late` are the peers whose read_exact failed on PREPARE_TIMEOUT (their
\* vote was not written yet, or still on its way), every other open connection
\* delivered its byte.  With every peer's state in hand the coordinator decides,
\* writes the verdict byte on every connection that opened, and answers the
\* coffee maker, whose read returns the byte if it is still reading.
CoordFinalize(m, late) ==
    /\ co[m].st = "collect"
    /\ \A r \in late : p[m][r].cv = "none"
    /\ \A r \in Replicas \ late : p[m][r].cv = "none" => p[m][r].vbyte # -1
    /\ LET state == [r \in Replicas |->
                        IF p[m][r].cv # "none" THEN p[m][r].cv
                        ELSE IF r \in late THEN PrepareState(FALSE, 0)
                        ELSE PrepareState(TRUE, p[m][r].vbyte)]
           d == Decision(state)
           verdict == Verdict(d)
       IN /\ co' = [co EXCEPT ![m].st = "done", ![m].decision = d,
                              ![m].reply = ReplyByte(d)]
          /\ p' = [p EXCEPT ![m] = [r \in Replicas |->
                    IF state[r] = "Disconnected" THEN p[m][r]
                    ELSE [p[m][r] EXCEPT !.cv = state[r],
                                         !.verdict = FinalizeByte(verdict)]]]
          /\ LET c == msgs[m].rep
             IN IF cwait[c] # 0
                THEN /\ result' = [result EXCEPT ![cwait[c]] = SendResult(ReplyByte(d))]
                     /\ got' = [got EXCEPT ![cwait[c]] = m]
                     /\ cwait' = [cwait EXCEPT ![c] = 0]
                     /\ UNCHANGED repQ
                ELSE /\ repQ' = [repQ EXCEPT ![c] =
                                    Append(@, [byte |-> ReplyByte(d), of |-> m])]
                     /\ UNCHANGED <<cwait, result, got>>
    /\ UNCHANGED <<ledger, pending, msgs, fnVars, poolVars>>

\* A participant that commits on whatever verdict byte it reads.
PartVerdict_commits(m, r) ==
    /\ p[m][r].pst = "Prepared"
    /\ p[m][r].verdict # -1
    /\ ledger' = CommitLedger(r, Tx(m))
    /\ p' = [p EXCEPT ![m][r].pst = "Committed"]
    /\ pending' = DropPending(r, Tx(m))
    /\ UNCHANGED <<msgs, co, repQ, cwait, result, got, fnVars, poolVars>>

\* Participant step 4, the verdict byte read: Proceed commits, anything else undoes.
PartVerdict(m, r) ==
    /\ p[m][r].pst = "Prepared"
    /\ p[m][r].verdict # -1
    /\ IF p[m][r].verdict = StateByte("Proceed")
       THEN /\ ledger' = CommitLedger(r, Tx(m))
            /\ p' = [p EXCEPT ![m][r].pst = "Committed"]
       ELSE /\ ledger' = UndoLedger(r, Tx(m))
            /\ p' = [p EXCEPT ![m][r].pst = "Aborted"]
    /\ pending' = DropPending(r, Tx(m))
    /\ UNCHANGED <<msgs, co, repQ, cwait, result, got, fnVars, poolVars>>

\* Participant step 4, the read failing on COMMIT_TIMEOUT: it aborts on its own.
PartTimeout(m, r) ==
    /\ p[m][r].pst = "Prepared"
    /\ p[m][r].verdict = -1
    /\ ledger' = UndoLedger(r, Tx(m))
    /\ pending' = DropPending(r, Tx(m))
    /\ p' = [p EXCEPT ![m][r].pst = "Aborted"]
    /\ UNCHANGED <<msgs, co, repQ, cwait, result, got, fnVars, poolVars>>

Next ==
    \/ \E r \in Replicas, q \in ValidPairs, c \in Clients, n \in PointChoices :
            ClientSend(r, q[1], q[2], c, n)
    \/ \E r \in Replicas : ClientTimeout(r)
    \/ \E m \in TxIds, now \in 1..MaxTs, down \in SUBSET Replicas :
            CoordStart(m, now, down)
    \/ \E m \in TxIds, r \in Replicas : PartPrepare(m, r)
    \/ \E m \in TxIds, late \in SUBSET Replicas : CoordFinalize(m, late)
    \/ \E m \in TxIds, r \in Replicas : PartVerdict(m, r)
    \/ \E m \in TxIds, r \in Replicas : PartTimeout(m, r)

Spec == Init /\ [][Next]_vars

\* The participant's blocking read of the verdict returns, with the byte or on
\* COMMIT_TIMEOUT: a Prepared participant does not stay Prepared forever.
FairSpec ==
    /\ Spec
    /\ \A m \in TxIds, r \in Replicas : WF_vars(PartVerdict(m, r) \/ PartTimeout(m, r))

\* ------------------------------------------- older_than on its own inputs

AddrStrings == UNION {[1..n -> Chars] : n \in 0..MaxAddrLen}

OrdInputs ==
    {TransactionNew(a, [kind |-> "LockOrder", act |-> "UsePoints", client |-> 7,
                        points |-> 50], t).tx : a \in AddrStrings, t \in 1..MaxTs}

InitOrd ==
    /\ Init2PC
    /\ ot \in {[NoOt EXCEPT !.a = x, !.b = y, !.c = z] :
                    x \in OrdInputs, y \in OrdInputs, z \in OrdInputs}
    /\ nt = NoNt /\ mt = NoMt /\ bt = NoBt /\ cn = NoCn
    /\ PoolBuilt

Compare ==
    /\ ~ot.done
    /\ ot' = [ot EXCEPT !.done = TRUE,
                        !.ab = older_than(ot.a, ot.b),
                        !.ba = older_than(ot.b, ot.a),
                        !.aa = older_than(ot.a, ot.a),
                        !.bc = older_than(ot.b, ot.c),
                        !.ac = older_than(ot.a, ot.c)]
    /\ UNCHANGED <<tpcVars, nt, mt, bt, cn, poolVars>>

NextOrd == Compare

SpecOrd == InitOrd /\ [][NextOrd]_vars

\* --------------------------------------- Transaction::new on its own inputs

MsgKinds == {"LockOrder", "FreeOrder", "CommitOrder"}

OrderActions == {"UsePoints", "FillPoints"}

NewInputs ==
    {[NoNt EXCEPT !.coordinator = a, !.now = t,
                  !.msg = [kind |-> k, act |-> x, client |-> c, points |-> n]] :
        a \in AddrStrings, t \in 1..MaxTs, k \in MsgKinds, x \in OrderActions,
        c \in {0, 7, 65535}, n \in {0, 50, 123}}

InitNew ==
    /\ Init2PC
    /\ ot = NoOt /\ mt = NoMt /\ bt = NoBt /\ cn = NoCn
    /\ PoolBuilt
    /\ nt \in NewInputs

NewTransaction ==
    /\ ~nt.done
    /\ nt' = [nt EXCEPT !.done = TRUE,
                        !.res = TransactionNew(nt.coordinator, nt.msg, nt.now)]
    /\ UNCHANGED <<tpcVars, ot, mt, bt, cn, poolVars>>

NextNew == NewTransaction

SpecNew == InitNew /\ [][NextNew]_vars

\* ------------------------------------ Message's conversions on their inputs

Orders ==
    [act : OrderActions, client : {0, 1, 255, 256, 65535},
     points : {0, 123, 255, 256, 65536, 16777215}]

MsgInputs == {[NoMt EXCEPT !.m = [kind |-> k, order |-> o]] : k \in MsgKinds, o \in Orders}

InitMsg ==
    /\ Init2PC
    /\ ot = NoOt /\ nt = NoNt /\ bt = NoBt /\ cn = NoCn
    /\ PoolBuilt
    /\ mt \in MsgInputs

\* test_message: the message into its bytes, and the bytes into a message.
RoundTrip ==
    /\ ~mt.done
    /\ mt' = [mt EXCEPT !.done = TRUE,
                        !.buf = MessageBytes(mt.m),
                        !.back = MessageFrom(MessageBytes(mt.m))]
    /\ UNCHANGED <<tpcVars, ot, nt, bt, cn, poolVars>>

NextMsg == RoundTrip

SpecMsg == InitMsg /\ [][NextMsg]_vars

\* ------------------------------------ prepare and finalize on their inputs

ByteInputs ==
    {[NoBt EXCEPT !.byte = b, !.readOk = ok, !.state = st] :
        b \in 0..255, ok \in BOOLEAN, st \in {"Proceed", "Abort"}}

InitByte ==
    /\ Init2PC
    /\ ot = NoOt /\ nt = NoNt /\ mt = NoMt /\ cn = NoCn
    /\ PoolBuilt
    /\ bt \in ByteInputs

\* prepare's reading of a vote byte, and the byte finalize writes for a verdict.
PrepareFinalize ==
    /\ ~bt.done
    /\ bt' = [bt EXCEPT !.done = TRUE,
                        !.prepared = PrepareState(bt.readOk, bt.byte),
                        !.written = FinalizeByte(bt.state)]
    /\ UNCHANGED <<tpcVars, ot, nt, mt, cn, poolVars>>

NextByte == PrepareFinalize

SpecByte == InitByte /\ [][NextByte]_vars

\* ------------------------- a replica reading frames from client connections

\* The tag bytes a connection may carry: the three of Message, and two others.
TagChoices == 0..4

FrameOrders == [act : OrderActions, client : {7}, points : {50}]

\* A client writes 7 bytes on its connection: any tag, then an order.
ConnWrite(c, tag, o) ==
    /\ cn.st[c] = "open"
    /\ cn.buf[c] = <<>>
    /\ cn.frames[c] < MaxFrames
    /\ cn' = [cn EXCEPT !.buf[c] = <<tag>> \o OrderBytes(o), !.frames[c] = @ + 1]
    /\ UNCHANGED <<tpcVars, ot, nt, mt, bt, poolVars>>

\* What a committed transaction does to the replica's entry of the client
\* (spec.md 3, the Ledger operations; Free and Consume as in CommitLedger).
EntryAfter(e, t) ==
    CASE t.action = "Lock" -> IF CanLock(e, t.points) THEN TryLock(e, t.points) ELSE e
      [] t.action = "Add" -> AddPoints(e, t.points)
      [] t.action = "Free" -> IF Underflows(e, t.points) THEN e ELSE Unlock(e, t.points)
      [] t.action = "Consume" ->
            IF Underflows(e, t.points) THEN e ELSE ConsumePoints(e, t.points)

\* The replica's handler of connection c takes the 7 bytes read and converts
\* them into a Message.  When the conversion panics the handler's thread
\* unwinds and its stream is dropped: the connection is closed, nothing else
\* is touched.  Otherwise the message is validated and coordinated; `commit`
\* is the outcome of its round, and the reply byte is written.
ConnHandle(c, commit) ==
    /\ cn.st[c] = "open"
    /\ cn.buf[c] # <<>>
    /\ LET m == MessageFrom(cn.buf[c])
       IN IF m.kind = "panic"
          THEN cn' = [cn EXCEPT !.st[c] = "closed", !.buf[c] = <<>>]
          ELSE LET res == TransactionNew(Addr(1), [kind |-> m.kind, act |-> m.order.act,
                                                   client |-> m.order.client,
                                                   points |-> m.order.points], 1)
                   ok == res.ok /\ commit
               IN cn' = [cn EXCEPT !.buf[c] = <<>>,
                                   !.replies[c] = Append(@, IF ok THEN 1 ELSE 0),
                                   !.entry = IF ok THEN EntryAfter(@, res.tx) ELSE @]
    /\ UNCHANGED <<tpcVars, ot, nt, mt, bt, poolVars>>

NextConn ==
    \/ \E c \in Conns, tag \in TagChoices, o \in FrameOrders : ConnWrite(c, tag, o)
    \/ \E c \in Conns, commit \in BOOLEAN : ConnHandle(c, commit)

SpecConn == Init /\ [][NextConn]_vars

\* ------------------------------------------------ the thread pool's steps

\* Where a worker goes on once no_work_notify_all is over: a thread that is
\* unwinding is in Sentinel::drop and spawns its replacement.
AfterNotify_nospawn(w) == IF wk[w].panicking THEN "exit" ELSE "top"

AfterNotify(w) == IF wk[w].panicking THEN "spawn" ELSE "top"

\* spawn_in_pool, the head of the loop: the thread leaves (sentinel.cancel) if
\* the pool has become smaller.
WorkerCheck(w) ==
    /\ wk[w].pc = "top"
    /\ wk' = [wk EXCEPT ![w].pc = IF active_count >= max_thread_count
                                  THEN "exit" ELSE "recv"]
    /\ UNCHANGED <<jobs, queued_count, active_count, panic_count, join_generation,
                   empty_trigger, th, job, handleVars, tpcVars, fnVars>>

\* A receive that leaves the job in the channel.
WorkerRecv_peek(w) ==
    /\ wk[w].pc = "recv"
    /\ jobs # <<>>
    /\ wk' = [wk EXCEPT ![w].pc = "got", ![w].job = Head(jobs)]
    /\ UNCHANGED <<jobs, queued_count, active_count, panic_count, join_generation,
                   empty_trigger, th, job, handleVars, tpcVars, fnVars>>

\* job_receiver.lock() and recv(): one thread at a time takes the next job.
WorkerRecv(w) ==
    /\ wk[w].pc = "recv"
    /\ jobs # <<>>
    /\ wk' = [wk EXCEPT ![w].pc = "got", ![w].job = Head(jobs)]
    /\ jobs' = Tail(jobs)
    /\ UNCHANGED <<queued_count, active_count, panic_count, join_generation,
                   empty_trigger, th, job, handleVars, tpcVars, fnVars>>

\* active_count.fetch_add(1)
WorkerCount(w) ==
    /\ wk[w].pc = "got"
    /\ active_count' = active_count + 1
    /\ wk' = [wk EXCEPT ![w].pc = "counted"]
    /\ UNCHANGED <<jobs, queued_count, panic_count, join_generation,
                   empty_trigger, th, job, handleVars, tpcVars, fnVars>>

\* queued_count.fetch_sub(1), and job.call_box() begins.
WorkerDequeue(w) ==
    /\ wk[w].pc = "counted"
    /\ queued_count' = queued_count - 1
    /\ wk' = [wk EXCEPT ![w].pc = "run"]
    /\ job' = [job EXCEPT ![wk[w].job].st = "running", ![wk[w].job].runs = @ + 1]
    /\ UNCHANGED <<jobs, active_count, panic_count, join_generation,
                   empty_trigger, th, handleVars, tpcVars, fnVars>>

\* job.call_box() returns.
JobReturns(w) ==
    /\ wk[w].pc = "run"
    /\ ~job[wk[w].job].panics
    /\ job' = [job EXCEPT ![wk[w].job].st = "done"]
    /\ wk' = [wk EXCEPT ![w].pc = "ran"]
    /\ UNCHANGED <<jobs, queued_count, active_count, panic_count, join_generation,
                   empty_trigger, th, handleVars, tpcVars, fnVars>>

\* job.call_box() panics: the thread unwinds and drops its active Sentinel.
JobPanics(w) ==
    /\ wk[w].pc = "run"
    /\ job[wk[w].job].panics
    /\ job' = [job EXCEPT ![wk[w].job].st = "panicked"]
    /\ wk' = [wk EXCEPT ![w].pc = "ran", ![w].panicking = TRUE]
    /\ UNCHANGED <<jobs, queued_count, active_count, panic_count, join_generation,
                   empty_trigger, th, handleVars, tpcVars, fnVars>>

\* A worker that goes on without the fetch_sub.
WorkerUncount_forget(w) ==
    /\ wk[w].pc = "ran"
    /\ wk' = [wk EXCEPT ![w].pc = IF wk[w].panicking THEN "pcount" ELSE "nowork"]
    /\ UNCHANGED <<jobs, queued_count, active_count, panic_count, join_generation,
                   empty_trigger, th, job, handleVars, tpcVars, fnVars>>

\* active_count.fetch_sub(1): after the job in the loop, or first in Sentinel::drop.
WorkerUncount(w) ==
    /\ wk[w].pc = "ran"
    /\ active_count' = active_count - 1
    /\ wk' = [wk EXCEPT ![w].pc = IF wk[w].panicking THEN "pcount" ELSE "nowork"]
    /\ UNCHANGED <<jobs, queued_count, panic_count, join_generation,
                   empty_trigger, th, job, handleVars, tpcVars, fnVars>>

\* Sentinel::drop: panic_count.fetch_add(1), thread::panicking() being true.
SentinelCount(w) ==
    /\ wk[w].pc = "pcount"
    /\ panic_count' = panic_count + 1
    /\ wk' = [wk EXCEPT ![w].pc = "nowork"]
    /\ UNCHANGED <<jobs, queued_count, active_count, join_generation,
                   empty_trigger, th, job, handleVars, tpcVars, fnVars>>

\* no_work_notify_all: its test of has_work.
NoWorkCheck(w) ==
    /\ wk[w].pc = "nowork"
    /\ wk' = [wk EXCEPT ![w].pc = IF has_work THEN AfterNotify(w) ELSE "nlock"]
    /\ UNCHANGED <<jobs, queued_count, active_count, panic_count, join_generation,
                   empty_trigger, th, job, handleVars, tpcVars, fnVars>>

\* no_work_notify_all: empty_trigger.lock(), the guard dropped at once.
NoWorkLock(w) ==
    /\ wk[w].pc = "nlock"
    /\ empty_trigger = 0
    /\ wk' = [wk EXCEPT ![w].pc = "nall"]
    /\ UNCHANGED <<jobs, queued_count, active_count, panic_count, join_generation,
                   empty_trigger, th, job, handleVars, tpcVars, fnVars>>

\* A notification that wakes one of the waiting threads only (notify_one).
NotifyAll_one(w) ==
    /\ wk[w].pc = "nall"
    /\ \E u \in Threads :
          /\ th[u].pc = "jwait" \/ \A t \in Threads : th[t].pc # "jwait"
          /\ th' = [t \in Threads |->
                      IF t = u /\ th[t].pc = "jwait"
                      THEN [th[t] EXCEPT !.pc = "jwoken"] ELSE th[t]]
    /\ wk' = [wk EXCEPT ![w].pc = AfterNotify(w)]
    /\ UNCHANGED <<jobs, queued_count, active_count, panic_count, join_generation,
                   empty_trigger, job, handleVars, tpcVars, fnVars>>

\* no_work_notify_all: empty_condvar.notify_all().
NotifyAll(w) ==
    /\ wk[w].pc = "nall"
    /\ th' = [t \in Threads |->
                IF th[t].pc = "jwait" THEN [th[t] EXCEPT !.pc = "jwoken"] ELSE th[t]]
    /\ wk' = [wk EXCEPT ![w].pc = AfterNotify(w)]
    /\ UNCHANGED <<jobs, queued_count, active_count, panic_count, join_generation,
                   empty_trigger, job, handleVars, tpcVars, fnVars>>

\* Sentinel::drop: spawn_in_pool; the unwinding thread ends and the new thread
\* has its slot.
SentinelSpawn(w) ==
    /\ wk[w].pc = "spawn"
    /\ wk' = [wk EXCEPT ![w] = [pc |-> "top", job |-> 0, panicking |-> FALSE]]
    /\ UNCHANGED <<jobs, queued_count, active_count, panic_count, join_generation,
                   empty_trigger, th, job, handleVars, tpcVars, fnVars>>

\* The closures whose execute has sent them, and those that have finished.
Submitted == {j \in JobIds : job[j].st \notin {"none", "sending"}}

Finished == {j \in JobIds : job[j].st \in {"done", "panicked"}}

\* ThreadPool::execute, first half: queued_count.fetch_add(1).  The closure is
\* one that returns or one that panics; at most `limit` closures are submitted.
ExecuteCount(t, panics, limit) ==
    /\ th[t].pc = "idle"
    /\ ~dropped
    /\ \E k \in 1..limit :
          /\ job[k].st = "none"
          /\ \A j \in 1..(k - 1) : job[j].st # "none"
          /\ job' = [job EXCEPT ![k] = [st |-> "sending", panics |-> panics, runs |-> 0]]
          /\ th' = [th EXCEPT ![t].pc = "send", ![t].job = k]
    /\ queued_count' = queued_count + 1
    /\ UNCHANGED <<jobs, active_count, panic_count, join_generation,
                   empty_trigger, wk, handleVars, tpcVars, fnVars>>

\* ThreadPool::execute, second half: jobs.send(Box::new(job)).
ExecuteSend(t) ==
    /\ th[t].pc = "send"
    /\ jobs' = Append(jobs, th[t].job)
    /\ job' = [job EXCEPT ![th[t].job].st = "queued"]
    /\ th' = [th EXCEPT ![t].pc = "idle", ![t].job = 0]
    /\ UNCHANGED <<queued_count, active_count, panic_count, join_generation,
                   empty_trigger, wk, handleVars, tpcVars, fnVars>>

\* The threads that are inside join, in empty_condvar.wait.
Waiting == {t \in Threads : th[t].pc \in {"jwait", "jwoken"}}

\* Thread t's join returns and the threads become f: if the pool is idle at
\* that moment, the other threads waiting inside join have seen a join of
\* their wave succeed.
Returned(t, f) ==
    [u \in Threads |->
        IF u # t /\ u \in Waiting /\ ~has_work THEN [f[u] EXCEPT !.wave = TRUE]
        ELSE f[u]]

\* ThreadPool::join, its first test: it returns at once if there is no work.
JoinCall(t) ==
    /\ th[t].pc = "idle"
    /\ ~dropped
    /\ th[t].joins < MaxJoins
    /\ IF has_work
       THEN th' = [th EXCEPT ![t].pc = "jgen", ![t].joins = @ + 1,
                             ![t].before = Submitted]
       ELSE th' = Returned(t, [th EXCEPT ![t].joins = @ + 1])
    /\ UNCHANGED <<jobs, queued_count, active_count, panic_count, join_generation,
                   empty_trigger, wk, job, handleVars, tpcVars, fnVars>>

\* join: generation = join_generation.load()
JoinLoad(t) ==
    /\ th[t].pc = "jgen"
    /\ th' = [th EXCEPT ![t].pc = "jlock", ![t].generation = join_generation]
    /\ UNCHANGED <<jobs, queued_count, active_count, panic_count, join_generation,
                   empty_trigger, wk, job, handleVars, tpcVars, fnVars>>

\* join: empty_trigger.lock(), and the lock taken again when wait is over.
JoinLock(t) ==
    /\ th[t].pc \in {"jlock", "jwoken"}
    /\ empty_trigger = 0
    /\ empty_trigger' = t
    /\ th' = [th EXCEPT ![t].pc = "jloop"]
    /\ UNCHANGED <<jobs, queued_count, active_count, panic_count, join_generation,
                   wk, job, handleVars, tpcVars, fnVars>>

\* join: the test of the while loop; empty_condvar.wait gives the lock up.
JoinLoop(t) ==
    /\ th[t].pc = "jloop"
    /\ IF th[t].generation = join_generation /\ has_work
       THEN /\ th' = [th EXCEPT ![t].pc = "jwait"]
            /\ empty_trigger' = 0
       ELSE /\ th' = [th EXCEPT ![t].pc = "jcas"]
            /\ UNCHANGED empty_trigger
    /\ UNCHANGED <<jobs, queued_count, active_count, panic_count, join_generation,
                   wk, job, handleVars, tpcVars, fnVars>>

\* Condvar::wait returning with no notification.
SpuriousWake(t) ==
    /\ th[t].pc = "jwait"
    /\ th' = [th EXCEPT ![t].pc = "jwoken"]
    /\ UNCHANGED <<jobs, queued_count, active_count, panic_count, join_generation,
                   empty_trigger, wk, job, handleVars, tpcVars, fnVars>>

\* join: the compare_exchange of join_generation, and the return (the lock is
\* dropped).
JoinReturn(t) ==
    /\ th[t].pc = "jcas"
    /\ join_generation' = IF join_generation = th[t].generation
                          THEN th[t].generation + 1 ELSE join_generation
    /\ empty_trigger' = 0
    /\ th' = Returned(t, [th EXCEPT ![t].pc = "idle", ![t].before = {},
                                     ![t].wave = FALSE])
    /\ UNCHANGED <<jobs, queued_count, active_count, panic_count,
                   wk, job, handleVars, tpcVars, fnVars>>

NextPool ==
    \/ \E w \in Workers : WorkerCheck(w)
    \/ \E w \in Workers : WorkerRecv(w)
    \/ \E w \in Workers : WorkerCount(w)
    \/ \E w \in Workers : WorkerDequeue(w)
    \/ \E w \in Workers : JobReturns(w)
    \/ \E w \in Workers : JobPanics(w)
    \/ \E w \in Workers : WorkerUncount(w)
    \/ \E w \in Workers : SentinelCount(w)
    \/ \E w \in Workers : NoWorkCheck(w)
    \/ \E w \in Workers : NoWorkLock(w)
    \/ \E w \in Workers : NotifyAll(w)
    \/ \E w \in Workers : SentinelSpawn(w)
    \/ \E t \in Submitters, panics \in BOOLEAN : ExecuteCount(t, panics, MaxJobs)
    \/ \E t \in Threads : ExecuteSend(t)
    \/ \E t \in Threads : JoinCall(t)
    \/ \E t \in Threads : JoinLoad(t)
    \/ \E t \in Threads : JoinLock(t)
    \/ \E t \in Threads : JoinLoop(t)
    \/ \E t \in Threads : SpuriousWake(t)
    \/ \E t \in Threads : JoinReturn(t)

SpecPool == Init /\ [][NextPool]_vars

\* A worker thread's next step, and a thread's next step inside execute or join.
WorkerStep(w) ==
    \/ WorkerCheck(w) \/ WorkerRecv(w) \/ WorkerCount(w) \/ WorkerDequeue(w)
    \/ JobReturns(w) \/ JobPanics(w) \/ WorkerUncount(w) \/ SentinelCount(w)
    \/ NoWorkCheck(w) \/ NoWorkLock(w) \/ NotifyAll(w) \/ SentinelSpawn(w)

CallStep(t) ==
    \/ ExecuteSend(t) \/ JoinLoad(t) \/ JoinLock(t) \/ JoinLoop(t) \/ JoinReturn(t)

\* The pool used by the submitting threads alone.
NextSolo ==
    \/ \E w \in Workers : WorkerStep(w)
    \/ \E t \in Submitters, panics \in BOOLEAN : ExecuteCount(t, panics, MaxSoloJobs)
    \/ \E t \in Submitters : JoinCall(t)
    \/ \E t \in Submitters : SpuriousWake(t)
    \/ \E t \in Submitters : CallStep(t)

\* Every thread that can take a step is scheduled in the end, the closures
\* return or panic, and a worker waiting for empty_trigger gets it in the end.
FairPool ==
    /\ Init /\ [][NextSolo]_vars
    /\ \A w \in Workers : WF_vars(WorkerStep(w)) /\ SF_vars(NoWorkLock(w))
    /\ \A t \in Submitters : WF_vars(CallStep(t))

\* Two threads that join while one of them executes closures; a thread that
\* waits for empty_trigger gets it in the end.
NextJoin ==
    \/ \E w \in Workers : WorkerStep(w)
    \/ \E t \in Submitters, panics \in BOOLEAN : ExecuteCount(t, panics, MaxJoinJobs)
    \/ \E t \in Threads : JoinCall(t)
    \/ \E t \in Threads : SpuriousWake(t)
    \/ \E t \in Threads : CallStep(t)

FairJoin ==
    /\ Init /\ [][NextJoin]_vars
    /\ \A w \in Workers : WF_vars(WorkerStep(w)) /\ SF_vars(NoWorkLock(w))
    /\ \A t \in Threads : WF_vars(CallStep(t)) /\ SF_vars(JoinLock(t))

\* ThreadPool::set_num_threads with a size below the present one:
\* max_thread_count.swap(num_threads); checked_sub gives None, so no thread is
\* spawned and none is told to stop.
SetNumThreads(t, num_threads) ==
    /\ th[t].pc = "idle"
    /\ ~dropped
    /\ num_threads >= 1
    /\ num_threads < max_thread_count
    /\ max_thread_count' = num_threads
    /\ shrunk_over' = {j \in JobIds : job[j].st = "running"}
    /\ UNCHANGED <<jobs, queued_count, active_count, panic_count, join_generation,
                   empty_trigger, wk, th, job, dropped, left_queued, tpcVars, fnVars>>

\* A pool that is made smaller while it is in use.
NextShrink ==
    \/ \E w \in Workers : WorkerStep(w)
    \/ \E t \in Submitters, panics \in BOOLEAN : ExecuteCount(t, panics, MaxSoloJobs)
    \/ \E t \in Submitters : ExecuteSend(t)
    \/ \E t \in Submitters, n \in 1..NumWorkers : SetNumThreads(t, n)

SpecShrink == Init /\ [][NextShrink]_vars

\* The last ThreadPool handle goes out of scope: its Sender is dropped with it.
HandlesDrop ==
    /\ ~dropped
    /\ \A t \in Threads : th[t].pc = "idle"
    /\ dropped' = TRUE
    /\ left_queued' = {j \in JobIds : job[j].st = "queued"}
    /\ UNCHANGED <<jobs, queued_count, active_count, panic_count, join_generation,
                   empty_trigger, wk, th, job, max_thread_count, shrunk_over,
                   tpcVars, fnVars>>

\* A thread that takes the Senders' drop for the end of the channel while
\* closures are still in it.
WorkerDisconnected_early(w) ==
    /\ wk[w].pc = "recv"
    /\ dropped
    /\ wk' = [wk EXCEPT ![w].pc = "exit"]
    /\ UNCHANGED <<jobs, queued_count, active_count, panic_count, join_generation,
                   empty_trigger, th, job, handleVars, tpcVars, fnVars>>

\* recv() on the empty channel whose Senders are all dropped: Err, the loop
\* breaks and sentinel.cancel() keeps the thread from being replaced.
WorkerDisconnected(w) ==
    /\ wk[w].pc = "recv"
    /\ jobs = <<>>
    /\ dropped
    /\ wk' = [wk EXCEPT ![w].pc = "exit"]
    /\ UNCHANGED <<jobs, queued_count, active_count, panic_count, join_generation,
                   empty_trigger, th, job, handleVars, tpcVars, fnVars>>

\* A pool whose handles are dropped, with closures still queued or running.
NextDrop ==
    \/ \E w \in Workers : WorkerStep(w)
    \/ \E w \in Workers : WorkerDisconnected(w)
    \/ \E t \in Submitters, panics \in BOOLEAN : ExecuteCount(t, panics, MaxSoloJobs)
    \/ \E t \in Submitters : ExecuteSend(t)
    \/ HandlesDrop

SpecDrop == Init /\ [][NextDrop]_vars

\* The same, every worker thread being scheduled in the end.
FairDrop ==
    /\ SpecDrop
    /\ \A w \in Workers : WF_vars(WorkerStep(w) \/ WorkerDisconnected(w))
    /\ \A w \in Workers : SF_vars(NoWorkLock(w))
    /\ \A t \in Submitters : WF_vars(ExecuteSend(t))

\* ----------------------------------------------------------------- claims

\* The points of the transactions with action `act` for client c that replica r
\* holds in one of the participant states `sts`, among messages 1..k.
RECURSIVE PointsIn(_, _, _, _, _)
PointsIn(k, r, c, act, sts) ==
    IF k = 0 THEN 0
    ELSE PointsIn(k - 1, r, c, act, sts)
         + (IF /\ k <= Len(msgs)
               /\ co[k].ts # 0
               /\ p[k][r].pst \in sts
               /\ Tx(k).client_id = c
               /\ Tx(k).action = act
            THEN Tx(k).points ELSE 0)

Committed(r, c, act) == PointsIn(MaxTx, r, c, act, {"Committed"})

\* Lexicographic order of two strings, stated by the first place they differ.
LexLess(a, b) ==
    \E k \in 0..Len(b) :
        /\ k <= Len(a)
        /\ \A i \in 1..k : a[i] = b[i]
        /\ \/ k = Len(a) /\ k < Len(b)
           \/ k < Len(a) /\ k < Len(b) /\ a[k + 1] < b[k + 1]

NoFault(m) ==
    \A r \in Replicas :
        /\ p[m][r].cv \in {"Proceed", "Abort"}
        /\ p[m][r].pst = "Aborted" => p[m][r].vote # "Proceed" \/ p[m][r].verdict # -1

\* Of the 256 values of a vote byte, prepare takes only Proceed's for Proceed, and
\* a read that failed for Timeout whatever the buffer holds.
OnlyProceedByteCounts ==
    \A b \in 0..255 :
        /\ PrepareState(TRUE, b) = "Proceed" <=> b = StateByte("Proceed")
        /\ PrepareState(FALSE, b) = "Timeout"

\* C2: the coordinator decides commit exactly when prepare gave Proceed for every
\* peer; Proceed is given only for the Proceed byte of a peer that voted Proceed,
\* for no other byte value, and never for a read that failed.
C2_CommitIffAllProceed ==
    \A m \in TxIds :
        co[m].st = "done" =>
            /\ co[m].decision = "commit" <=> \A r \in Replicas : p[m][r].cv = "Proceed"
            /\ \A r \in Replicas :
                  p[m][r].cv = "Proceed" =>
                      /\ p[m][r].vbyte = StateByte("Proceed")
                      /\ p[m][r].vote = "Proceed"
    /\ OnlyProceedByteCounts

\* One transaction committed, and one was aborted by a single Abort vote although
\* another peer voted Proceed.
C2_Witness ==
    /\ \E m \in TxIds : co[m].decision = "commit"
    /\ \E m \in TxIds, r1, r2 \in Replicas :
          /\ co[m].decision = "abort"
          /\ p[m][r1].cv = "Proceed"
          /\ p[m][r2].cv = "Abort"

\* C3: no transaction is Committed at one replica and Aborted at another, and
\* once every transaction has resolved the replicas hold the same balances.
AllResolved ==
    /\ \A m \in 1..Len(msgs) : co[m].st = "done"
    /\ \A m \in TxIds, r \in Replicas :
          p[m][r].prep # "flight" /\ p[m][r].pst # "Prepared"

C3_Agreement ==
    /\ \A m \in TxIds, r1, r2 \in Replicas :
          ~(p[m][r1].pst = "Committed" /\ p[m][r2].pst = "Aborted")
    /\ AllResolved => \A r1, r2 \in Replicas : ledger[r1] = ledger[r2]

\* C4: of two Lock transactions that two coordinators run at the same time for a
\* client whose balance covers exactly one, the older gets Proceed from every
\* participant and the younger an Abort, whatever the order of arrival.
C4_OlderLockWins ==
    \A m1, m2 \in 1..Len(msgs) :
        ( /\ Len(msgs) = 2
          /\ msgs[m1].rep # msgs[m2].rep
          /\ msgs[m1].client = msgs[m2].client
          /\ co[m1].st = "collect" /\ co[m2].st = "collect"
          /\ Tx(m1).action = "Lock" /\ Tx(m2).action = "Lock"
          /\ Tx(m1).points <= InitAvail /\ Tx(m2).points <= InitAvail
          /\ Tx(m1).points + Tx(m2).points > InitAvail
          /\ older_than(Tx(m1), Tx(m2))
          /\ \A m \in {m1, m2}, r \in Replicas :
                p[m][r].vote # "none" /\ (p[m][r].vote = "Proceed" => p[m][r].pst = "Prepared") )
        => /\ \A r \in Replicas : p[m1][r].vote = "Proceed"
           /\ \E r \in Replicas : p[m2][r].vote # "Proceed"

\* The Lock reservations replica r holds for client c: Prepared or Committed.
HeldLocks(r, c) == PointsIn(MaxTx, r, c, "Lock", {"Prepared", "Committed"})

\* A peer of transaction m did not deliver its vote within PREPARE_TIMEOUT.
C5_TimedOut(m) == \E r \in Replicas : p[m][r].cv = "Timeout"

\* The coordinator's side: a timed-out transaction is decided abort and answered
\* with the error byte, no participant commits it, and every ledger's locked
\* amount is exactly what unresolved or committed Locks hold.
C5_NeverCommitted ==
    /\ \A m \in TxIds :
          C5_TimedOut(m) =>
              /\ co[m].decision = "abort"
              /\ co[m].reply = 0
              /\ \A r \in Replicas : p[m][r].pst # "Committed"
    /\ \A r \in Replicas, c \in Clients :
          ledger[r][c].locked = HeldLocks(r, c) - Committed(r, c, "Free")
                                    - Committed(r, c, "Consume")

\* The coffee maker's side: send does not return Ok for a timed-out transaction.
C5_ClientSeesError == \A m \in TxIds : C5_TimedOut(m) => result[m] # "ok"

\* Every participant that voted Proceed on a timed-out transaction ends Aborted
\* with its PendingLock dropped.
C5_Released ==
    \A m \in TxIds, r \in Replicas :
        (C5_TimedOut(m) /\ p[m][r].vote = "Proceed")
            ~> (p[m][r].pst = "Aborted" /\ Matching(r, Tx(m)) = {})

\* C5: a transaction with a peer whose vote timed out is never committed, it is
\* aborted everywhere, the coffee maker's send returns an error for it, and the
\* points reserved for it by the participants that voted Proceed are eventually
\* released.
C5_TimeoutSafety == []C5_NeverCommitted /\ []C5_ClientSeesError /\ C5_Released

\* A Lock whose other peer's vote timed out, aborted at the participant that had
\* reserved for it, the balance there restored.
C5_Witness ==
    \E m \in TxIds, r \in Replicas :
        /\ C5_TimedOut(m)
        /\ Len(msgs) = 1
        /\ Tx(m).action = "Lock"
        /\ p[m][r].vote = "Proceed"
        /\ p[m][r].pst = "Aborted"
        /\ ledger[r][Tx(m).client_id] = NewEntry

\* C6: the reply byte is 1 for a commit and 0 for an abort, send returns Ok for a
\* non-zero byte and an error for 0, and send returns Ok only for a message
\* whose transaction committed.
C6_SuccessOnlyIfCommitted ==
    \A m \in TxIds :
        /\ co[m].st = "done" => co[m].reply = (IF co[m].decision = "commit" THEN 1 ELSE 0)
        /\ got[m] # 0 => result[m] = (IF co[got[m]].reply = 0 THEN "err" ELSE "ok")
        /\ (result[m] = "ok" /\ co[m].st = "done") => co[m].decision = "commit"

\* Replica r votes on transaction m in this step.
C7_VoteStep(m, r) == p[m][r].prep = "flight" /\ p'[m][r].prep = "done"

\* The replicas' side: a Lock voted InsufficientFunds is voted with the Abort
\* byte, is never committed anywhere and is answered with the error byte.
C7_Aborted ==
    \A m \in TxIds, r \in Replicas :
        p[m][r].vote = "InsufficientFunds" =>
            /\ p[m][r].vbyte = StateByte("Abort")
            /\ p[m][r].pst = "Aborted"
            /\ co[m].decision # "commit"
            /\ co[m].st = "done" => co[m].reply = 0
            /\ \A r2 \in Replicas : p[m][r2].pst # "Committed"

\* The coffee maker's side: send does not return Ok for such a Lock.
C7_ClientSeesError ==
    \A m \in TxIds :
        (\E r \in Replicas : p[m][r].vote = "InsufficientFunds") => result[m] # "ok"

\* The vote on a Lock at a replica whose available balance is below its points
\* is InsufficientFunds and changes no ledger and no PendingLock table.
C7_LedgerUnchanged ==
    [][\A m \in TxIds, r \in Replicas :
            ( /\ C7_VoteStep(m, r)
              /\ Tx(m).action = "Lock"
              /\ ledger[r][Tx(m).client_id].available < Tx(m).points )
            => /\ p'[m][r].vote = "InsufficientFunds"
               /\ ledger' = ledger
               /\ pending' = pending]_vars

\* C7: a Lock that reaches a replica whose available balance is below its points
\* is voted Abort there without a change to any ledger or PendingLock table; it
\* is never committed anywhere, it is answered with the error byte and the
\* coffee maker's send returns an error for it.
C7_InsufficientFunds == []C7_Aborted /\ []C7_ClientSeesError /\ C7_LedgerUnchanged

\* A Lock voted InsufficientFunds, decided and answered.
C7_Witness ==
    \E m \in TxIds, r \in Replicas :
        /\ p[m][r].vote = "InsufficientFunds"
        /\ co[m].st = "done"
        /\ co[m].reply = 0

\* The message that follows m1 on the connection of m1's replica is m2.
Follows(m1, m2) ==
    /\ m1 < m2
    /\ msgs[m1].rep = msgs[m2].rep
    /\ \A k \in (m1 + 1)..(m2 - 1) : msgs[k].rep # msgs[m1].rep

AfterCommittedLock(m1, m2, kind) ==
    /\ Follows(m1, m2)
    /\ msgs[m1].kind = "LockOrder"
    /\ msgs[m2].kind = kind /\ msgs[m2].act = "UsePoints"
    /\ msgs[m2].client = msgs[m1].client /\ msgs[m2].points = msgs[m1].points
    /\ result[m1] = "ok" /\ got[m1] = m1
    /\ \A r \in Replicas : p[m1][r].pst = "Committed"
    /\ co[m2].st = "done"
    /\ NoFault(m2)

\* C8: a CommitOrder with UsePoints(n) that follows a committed LockOrder with
\* UsePoints(n) of the same client from the same replica commits.
C8_CommitAfterLock ==
    \A m1, m2 \in 1..Len(msgs) :
        AfterCommittedLock(m1, m2, "CommitOrder") => co[m2].decision = "commit"

\* C9: a FreeOrder with UsePoints(n) that follows a committed LockOrder with
\* UsePoints(n) of the same client commits.
C9_FreeAfterLock ==
    \A m1, m2 \in 1..Len(msgs) :
        AfterCommittedLock(m1, m2, "FreeOrder") => co[m2].decision = "commit"

\* C11: Transaction::new accepts exactly the four valid (message, order action)
\* pairs, with the action of the table; LockOrder or FreeOrder with FillPoints
\* gives an error and no transaction; an accepted transaction carries the
\* order's client_id and points and the given coordinator.
C11_NewValidates ==
    nt.done =>
        LET k == nt.msg.kind
            x == nt.msg.act
            table == (<<"LockOrder", "UsePoints">> :> "Lock")
                     @@ (<<"FreeOrder", "UsePoints">> :> "Free")
                     @@ (<<"CommitOrder", "FillPoints">> :> "Add")
                     @@ (<<"CommitOrder", "UsePoints">> :> "Consume")
        IN /\ nt.res.ok <=> <<k, x>> \in DOMAIN table
           /\ (k \in {"LockOrder", "FreeOrder"} /\ x = "FillPoints")
                  => (~nt.res.ok /\ DOMAIN nt.res = {"ok"})
           /\ nt.res.ok =>
                  /\ nt.res.tx.action = table[<<k, x>>]
                  /\ nt.res.tx.client_id = nt.msg.client
                  /\ nt.res.tx.points = nt.msg.points
                  /\ nt.res.tx.coordinator = nt.coordinator

\* A FreeOrder carrying FillPoints, refused.
C11_Witness ==
    /\ nt.done
    /\ nt.msg.kind = "FreeOrder" /\ nt.msg.act = "FillPoints"
    /\ ~nt.res.ok

\* C12: decoding the 7-byte encoding of a Message gives the Message back; the
\* encoding's first byte is 1 for LockOrder, 2 for FreeOrder and 3 for
\* CommitOrder, and the six bytes after it are the order's.
C12_MessageRoundTrip ==
    mt.done =>
        /\ mt.back = mt.m
        /\ Len(mt.buf) = 7
        /\ \A i \in 1..7 : mt.buf[i] \in 0..255
        /\ mt.buf[1] = (("LockOrder" :> 1) @@ ("FreeOrder" :> 2)
                            @@ ("CommitOrder" :> 3))[mt.m.kind]
        /\ \A i \in 1..6 : mt.buf[i + 1] = OrderBytes(mt.m.order)[i]

\* A FreeOrder whose points take more than one byte, round-tripped.
C12_Witness ==
    /\ mt.done
    /\ mt.m.kind = "FreeOrder"
    /\ mt.m.order.points > 255
    /\ mt.back = mt.m

\* C13 as stated: finalize writes 1 for a commit verdict and 0 for an abort
\* verdict, and prepare takes a vote byte 1 for Proceed and 0 for Abort.
C13_ZeroAbortOneProceed ==
    bt.done =>
        /\ bt.state = "Proceed" => bt.written = 1
        /\ bt.state = "Abort" => bt.written = 0
        /\ (bt.readOk /\ bt.byte = 1) => bt.prepared = "Proceed"
        /\ (bt.readOk /\ bt.byte = 0) => bt.prepared = "Abort"

\* C13, amended: finalize writes 2 for a commit verdict and 1 for an abort
\* verdict (the enum's discriminants), and prepare takes the vote byte 2 for
\* Proceed and every other byte, 0 and 1 among them, for Abort.
C13_OneAbortTwoProceed ==
    bt.done =>
        /\ bt.state = "Proceed" => bt.written = 2
        /\ bt.state = "Abort" => bt.written = 1
        /\ bt.readOk => (bt.prepared = "Proceed" <=> bt.byte = 2)
        /\ (bt.readOk /\ bt.byte # 2) => bt.prepared = "Abort"
        /\ ~bt.readOk => bt.prepared = "Timeout"

\* The vote byte 1 read as Abort, and a commit verdict written as 2.
C13_Witness ==
    /\ bt.done
    /\ bt.readOk /\ bt.byte = 1 /\ bt.prepared = "Abort"
    /\ bt.state = "Proceed" /\ bt.written = 2

Panicked == {j \in JobIds : job[j].st = "panicked"}

C14_NoWorkerLost == \A w \in Workers : wk[w].pc # "exit"

\* Every worker whose closure panicked has been replaced, and once NumWorkers
\* closures have panicked every closure passed to execute has been executed.
C14_Healed ==
    /\ \A w \in Workers : ~wk[w].panicking
    /\ Cardinality(Panicked) >= NumWorkers => Submitted \subseteq Finished

\* C14: a pool of NumWorkers workers keeps NumWorkers threads able to take
\* closures: no worker slot is ever left without a thread, a worker whose
\* closure panicked is replaced by a fresh one, and the closures submitted
\* after NumWorkers closures have panicked are all executed.
C14_SelfHealing == []C14_NoWorkerLost /\ []<>C14_Healed

C14_Witness ==
    /\ Cardinality(Panicked) = NumWorkers
    /\ panic_count = NumWorkers
    /\ Cardinality({j \in JobIds : job[j].st = "done"}) = NumWorkers
    /\ \A j \in 1..NumWorkers : job[j].st = "panicked"

\* join returns to thread t in this step: at its first test, or after the loop.
JoinReturned(t) == JoinReturn(t) \/ (JoinCall(t) /\ ~has_work)

\* The closures submitted before the call of join that returns in this step.
BeforeJoin(t) == IF th[t].pc = "jcas" THEN th[t].before ELSE Submitted

\* C15: when join returns and every closure submitted so far was submitted
\* before the call and is one that panics, panic_count is the number of those
\* closures.
C15_PanicCountExact ==
    [][\A t \in Threads :
          (/\ JoinReturned(t)
           /\ BeforeJoin(t) # {}
           /\ \A j \in JobIds : job[j].st # "none" =>
                                    j \in BeforeJoin(t) /\ job[j].panics)
          => panic_count = Cardinality(BeforeJoin(t))]_vars

\* No closure is run twice: it is started at most once, by at most one worker.
C16_AtMostOnce ==
    \A j \in JobIds :
        /\ job[j].runs <= 1
        /\ job[j].st \in {"running", "done", "panicked"} => job[j].runs = 1
        /\ Cardinality({w \in Workers : wk[w].job = j}) <= 1

\* Every closure passed to execute has returned or panicked.
C16_AllRun == {j \in JobIds : job[j].st # "none"} \subseteq Finished

\* C16: every closure passed to execute is run exactly once: never twice, and
\* in the end each has been run, also with more closures than workers and with
\* closures that panic.
C16_RunExactlyOnce == []C16_AtMostOnce /\ []<>C16_AllRun

C16_Witness ==
    /\ \A j \in JobIds : job[j].st \in {"done", "panicked"} /\ job[j].runs = 1
    /\ Cardinality(JobIds) > NumWorkers
    /\ \E j \in JobIds : job[j].st = "panicked"
    /\ \E j \in JobIds : job[j].st = "done"

\* The closures being executed, and the workers executing one.
Running == {j \in JobIds : job[j].st = "running"}

Executing == {w \in Workers : wk[w].pc = "run"}

\* C17: active_count never exceeds NumWorkers, no more than NumWorkers closures
\* are being executed, and each of them by one worker of its own.
C17_ActiveBounded ==
    /\ active_count <= NumWorkers
    /\ Cardinality(Running) <= NumWorkers
    /\ Cardinality(Running) <= active_count
    /\ \A j \in Running : \E w \in Executing : wk[w].job = j
    /\ \A v, w \in Executing : wk[v].job = wk[w].job => v = w

C17_Witness ==
    /\ active_count = NumWorkers
    /\ Cardinality(Running) = NumWorkers
    /\ queued_count > 0
    /\ panic_count > 0

\* No closure was passed to execute, or was being passed, between the call of
\* the join that returns in this step and its return.
QuietJoin(t) == {j \in JobIds : job[j].st # "none"} = BeforeJoin(t)

\* C18: when join returns, every closure submitted before the call has
\* returned or panicked; and if none was submitted during the join,
\* active_count and queued_count are 0.
C18_JoinWaitsForAll ==
    [][\A t \in Threads :
          JoinReturned(t) =>
              /\ BeforeJoin(t) \subseteq Finished
              /\ QuietJoin(t) => active_count = 0 /\ queued_count = 0]_vars

\* Replica r applies unlock or consume for transaction m in this step: a Free or
\* a Consume commits, or the reservation of a Lock is undone.
Releases(m, r) ==
    \/ /\ PartVerdict(m, r)
       /\ p[m][r].verdict = StateByte("Proceed")
       /\ Tx(m).action \in {"Free", "Consume"}
    \/ /\ PartVerdict(m, r)
       /\ p[m][r].verdict # StateByte("Proceed")
       /\ Tx(m).action = "Lock"
    \/ /\ PartTimeout(m, r)
       /\ Tx(m).action = "Lock"

SentOn(r) == {k \in 1..Len(msgs) : msgs[k].rep = r}

\* The server answers the messages of one connection in the order they came.
C20_RepliesInOrder ==
    \A m \in 1..Len(msgs) : \A k \in SentOn(msgs[m].rep) :
        k < m /\ co[m].st \in {"collect", "done"} => co[k].st = "done"

\* The coffee maker writes a message only when it has read the reply of every
\* message it wrote before on that connection.
C20_SendsAfterReply ==
    [][Len(msgs') > Len(msgs) =>
          \A k \in SentOn(msgs'[Len(msgs')].rep) : got[k] = k]_vars

\* C20: on one client connection at most one request is in flight, and the
\* replies are produced in the order the messages arrived.
C20_OneInFlight == []C20_RepliesInOrder /\ C20_SendsAfterReply

\* The handler of connection c takes, in this step, a frame whose tag byte is
\* not 1, 2 or 3.
InvalidFrame(c) ==
    /\ cn.buf[c] # <<>>
    /\ cn.buf[c][1] \notin {1, 2, 3}
    /\ cn'.buf[c] = <<>>

\* Every open connection with a frame waiting can be served.
C21_StillServing ==
    \A d \in Conns : cn.st[d] = "open" /\ cn.buf[d] # <<>> => ENABLED ConnHandle(d, TRUE)

C21_OnlyOffender ==
    [][\A c \in Conns :
          InvalidFrame(c) =>
              /\ cn'.st[c] = "closed"
              /\ cn'.replies[c] = cn.replies[c]
              /\ cn'.entry = cn.entry
              /\ \A d \in Conns \ {c} :
                    /\ cn'.st[d] = cn.st[d]
                    /\ cn'.buf[d] = cn.buf[d]
                    /\ cn'.replies[d] = cn.replies[d]]_vars

C22_Move(m, r) ==
    LET a == p[m][r].pst
        b == p'[m][r].pst
    IN a # b =>
        \/ a = "Idle" /\ b = "Prepared" /\ p'[m][r].vote = "Proceed"
        \/ a = "Idle" /\ b = "Aborted" /\ p'[m][r].vote \notin {"none", "Proceed"}
                      /\ ledger' = ledger
        \/ a = "Prepared" /\ b = "Committed" /\ p[m][r].verdict = StateByte("Proceed")
        \/ a = "Prepared" /\ b = "Aborted"

\* Replica r's ledger changes only in a step in which one of its transactions
\* leaves Idle or Prepared; a Committed or Aborted one applies nothing more.
C22_LedgerByMove(r) ==
    ledger'[r] # ledger[r] =>
        \E m \in TxIds : /\ p[m][r].pst \in {"Idle", "Prepared"}
                         /\ p'[m][r].pst # p[m][r].pst

C24_NothingHeld ==
    /\ \A m \in TxIds, r \in Replicas : p[m][r].pst # "Prepared"
    /\ \A r \in Replicas : pending[r] = {}
    /\ \A r \in Replicas, c \in Clients :
          ledger[r][c].locked = Committed(r, c, "Lock") - Committed(r, c, "Free")
                                    - Committed(r, c, "Consume")

\* The locked amount of a replica is held by its Prepared and Committed
\* transactions only: one that has aborted holds nothing.
C24_AbortReleases ==
    \A r \in Replicas, c \in Clients :
        ledger[r][c].locked = HeldLocks(r, c) - Committed(r, c, "Free")
                                  - Committed(r, c, "Consume")

\* C24: every participant that voted Proceed leaves Prepared in the end, with
\* the verdict or on COMMIT_TIMEOUT when the verdict never comes, and its
\* reservation is released: no points stay locked by an unresolved Prepare.
C24_PreparedResolves == []C24_AbortReleases /\ []<>C24_NothingHeld

\* A participant that voted Proceed was never written a verdict and has
\* aborted on its own, its reservation undone.
C24_Witness ==
    \E m \in TxIds, r \in Replicas :
        /\ p[m][r].vote = "Proceed"
        /\ p[m][r].verdict = -1
        /\ p[m][r].pst = "Aborted"
        /\ co[m].st = "collect"
        /\ Tx(m).action = "Lock"
        /\ ledger[r][Tx(m).client_id].locked = 0

\* C25: an aborted transaction has no net effect: at every replica the entry
\* of a client is the opening balance changed by the transactions that are
\* Prepared or Committed there and by no other, so a transaction that a
\* participant resolved as Aborted, by whatever cause, has left both balances
\* as they would be without it.
C25_AbortedNoEffect ==
    \A r \in Replicas, c \in Clients :
        ledger[r][c] =
            [available |-> InitAvail - HeldLocks(r, c) + Committed(r, c, "Add")
                               + Committed(r, c, "Free"),
             locked |-> HeldLocks(r, c) - Committed(r, c, "Free")
                            - Committed(r, c, "Consume")]

\* At one replica the first transaction reserved and was then aborted and the
\* second was aborted by the replica's own Abort vote; the entry is the
\* opening one.
C25_Witness ==
    \E r \in Replicas :
        /\ p[1][r].vote = "Proceed" /\ p[1][r].pst = "Aborted"
        /\ p[2][r].vote \notin {"none", "Proceed"} /\ p[2][r].pst = "Aborted"
        /\ ledger[r] = [c \in Clients |-> NewEntry]

\* C26: a thread that was waiting inside join when another thread's join
\* returned from the idle pool does not go back to wait for the work submitted
\* since.
C26_JoinWaves ==
    [][\A t \in Threads : JoinLoop(t) /\ th[t].wave => th'[t].pc # "jwait"]_vars


\* C30: the reply byte PointStorage::send reads for a message is the reply the
\* replica wrote for that same message, never the one written for an earlier
\* message on the connection.
C30_OwnReply == \A m \in TxIds : got[m] # 0 => got[m] = m

\* C27: once the closures that were running when set_num_threads made the pool
\* smaller have all finished, no more than max_thread_count closures are
\* executed at a time.
C27_ShrinkTakesEffect ==
    (/\ max_thread_count < NumWorkers
     /\ Cardinality(shrunk_over) = NumWorkers
     /\ shrunk_over \subseteq Finished)
        => Cardinality(Running) <= max_thread_count

\* Every worker thread has terminated.
AllTerminated == \A w \in Workers : wk[w].pc = "exit"

\* A worker thread terminates only when the handles are dropped and the
\* channel is empty.
C29_NoEarlyExit ==
    \A w \in Workers : wk[w].pc = "exit" => dropped /\ jobs = <<>>

\* From some point on, if the handles are dropped, every closure that was
\* queued at the drop has been executed and every worker thread, a replacement
\* spawned by a panicking one included, has terminated.
C29_Drained == dropped => AllTerminated /\ left_queued \subseteq Finished

\* C29: after every ThreadPool handle is dropped the closures already queued
\* are still executed and then every worker thread terminates, the replacement
\* of a thread whose closure panicked after the drop included.
C29_DropDrains == []C29_NoEarlyExit /\ <>[]C29_Drained

\* The handles were dropped with closures queued, one of which panicked when
\* it was executed; all of them have been executed and no worker is left.
C29_Witness ==
    /\ dropped /\ AllTerminated
    /\ Cardinality(left_queued) >= 2
    /\ left_queued \subseteq Finished
    /\ \E j \in left_queued : job[j].st = "panicked"

\* Thread t is inside join.
InJoin(t) == th[t].pc \in {"jgen", "jlock", "jloop", "jwait", "jwoken", "jcas"}

\* A worker that has ended a closure and has not yet done its
\* no_work_notify_all.
Notifying == {w \in Workers : wk[w].pc \in {"pcount", "nowork", "nlock", "nall"}}

\* join called on the idle pool returns at once.
C28_IdleReturns ==
    [][\A t \in Threads : JoinCall(t) /\ ~has_work => th'[t].pc = "idle"]_vars

\* No wake-up is lost: a thread asleep in empty_condvar.wait while the pool is
\* idle has a worker on its way to notify_all.
C28_WakeUpPending ==
    \A t \in Threads : th[t].pc = "jwait" /\ ~has_work => Notifying # {}

\* No thread is inside join with the pool idle.
C28_NoneStuck == \A t \in Threads : ~(InJoin(t) /\ ~has_work)

\* C28: join never hangs: on the idle pool it returns at once, the wake-up of
\* the worker that ends the last closure is not lost, and no thread stays
\* inside join for ever once the pool is idle.
C28_JoinNeverHangs ==
    C28_IdleReturns /\ []C28_WakeUpPending /\ []<>C28_NoneStuck

\* Both threads sleep in join while the last closure is run, and a worker is
\* about to notify them of the idle pool.
C28_Witness ==
    /\ \A t \in Threads : th[t].pc = "jwait"
    /\ ~has_work
    /\ \E w \in Workers : wk[w].pc = "nall"

====
